---- MODULE Spec2Model ----
(***************************************************************************)
(* Model of the PDF quiz generator of src/quiz_agent.py:                   *)
(* generate_quiz_from_pdf, its helpers _select_candidate_sentences,        *)
(* _collect_nouns, _mask_target_in_sentence, _build_mcq and _format_quiz.  *)
(*                                                                         *)
(* A string is a sequence of one-character strings, so that lower(),       *)
(* strip(), "+ 's'" and equality are computed, not assumed.  The sentence  *)
(* tokenizer, the word tokenizer and the POS tagger are external (nltk):   *)
(* their outputs are inputs of the model.  A sentence is the sequence of   *)
(* its tagged word tokens; its text is the sequence of its words.          *)
(***************************************************************************)
EXTENDS Integers, Sequences, FiniteSets, TLC

----------------------------------------------------------------------------
(* Bounds of the model *)

MaxCount == 6
MaxSeed == 2

----------------------------------------------------------------------------
(* Strings *)

\* seed=None: the seeds of the model are naturals
None == -1

UpperCase == {"B", "F"}

LowerChar(c) == IF c = "B" THEN "b" ELSE IF c = "F" THEN "f" ELSE c

Letters == {"b", "i", "r", "d", "s", "f", "h", "o", "g", "x", "t", "e", "w", "l"} \cup UpperCase

Lower(w) == [i \in 1..Len(w) |-> LowerChar(w[i])]

RECURSIVE StripLeft(_, _)
StripLeft(w, chars) ==
    IF w # <<>> /\ Head(w) \in chars THEN StripLeft(Tail(w), chars) ELSE w

RECURSIVE StripRight(_, _)
StripRight(w, chars) ==
    IF w # <<>> /\ w[Len(w)] \in chars
    THEN StripRight(SubSeq(w, 1, Len(w) - 1), chars)
    ELSE w

Strip(w, chars) == StripRight(StripLeft(w, chars), chars)

Whitespace == {" "}
Punctuation == {".", ",", ";", ":", "!", "?", "(", ")", "[", "]", "{", "}", "'", "\""}

Range(s) == {s[i] : i \in 1..Len(s)}

\* membership in a python list / python set of strings
InList(x, s) == \E i \in 1..Len(s) : s[i] = x

(* the vocabulary of the documents *)
bird == <<"b", "i", "r", "d">>
Bird == <<"B", "i", "r", "d">>
birds == <<"b", "i", "r", "d", "s">>
fish == <<"f", "i", "s", "h">>
frog == <<"f", "r", "o", "g">>
wolf == <<"w", "o", "l", "f">>
ox == <<"o", "x">>
the == <<"t", "h", "e">>
h2o == <<"h", "2", "o">>

BLANK == <<"_", "_", "_", "_", "_">>

Tok(w, t) == [w |-> w, t |-> t]

\* t.startswith("NN")
IsNounTag(t) == t \in {"NN", "NNS", "NNP", "NNPS"}

----------------------------------------------------------------------------
(* Documents.  The raw text of a PDF is a sequence of pieces: a piece is    *)
(* one whitespace character or one sentence (what nltk.sent_tokenize will   *)
(* split off), given with the tagged tokens nltk.word_tokenize and          *)
(* nltk.pos_tag produce for it.                                             *)

Space == [toks |-> <<>>, colon |-> FALSE, ws |-> " "]
Newline == [toks |-> <<>>, colon |-> FALSE, ws |-> "\n"]

IsWhitespace(p) == p.ws # ""

Filler(n) == [i \in 1..n |-> Tok(the, "DT")]

Sentence(toks, colon) == [toks |-> toks, colon |-> colon, ws |-> ""]

\* "bird fish the the the the the the": two nouns of the pool
SentBirdFish == Sentence(<<Tok(bird, "NN"), Tok(fish, "NN")>> \o Filler(6), FALSE)
\* "Bird frog bird the ...": the noun bird occurs twice, in two casings
SentBirdTwice == Sentence(<<Tok(Bird, "NNP"), Tok(frog, "NN"), Tok(bird, "NN")>> \o Filler(5), FALSE)
\* "birds the ...": only the plural
SentBirds == Sentence(<<Tok(birds, "NNS")>> \o Filler(7), FALSE)
\* "ox h2o the ...": nouns that never enter a noun pool
SentOx == Sentence(<<Tok(ox, "NN"), Tok(h2o, "NN")>> \o Filler(6), FALSE)
\* "fish frog wolf": too short to be a candidate, but its nouns enter the pool
SentShort == Sentence(<<Tok(fish, "NN"), Tok(frog, "NN"), Tok(wolf, "NN")>>, FALSE)
\* "bird the ... :" ends with a colon
SentColon == Sentence(<<Tok(bird, "NN")>> \o Filler(7), TRUE)

\* "bird the ...": with "birds the ..." the pool is bird, birds and the
\* target bird has no distractor
SentBird == Sentence(<<Tok(bird, "NN")>> \o Filler(7), FALSE)

\* the documents: the sentences of each, in order
Documents ==
    {<<SentShort>>, <<SentColon>>, <<SentOx>>, <<SentBirdFish>>, <<SentBirdTwice>>,
     <<SentBirds>>, <<SentBirdFish, SentOx>>, <<SentBirdFish, SentBirds>>,
     <<SentShort, SentBirdFish>>, <<SentColon, SentBirds>>, <<SentBird, SentBirds>>}

\* the pages' text: the sentences separated by newlines, with a trailing blank
RECURSIVE JoinPages(_)
JoinPages(ss) ==
    IF ss = <<>> THEN <<>>
    ELSE <<Head(ss), Newline, Space>> \o JoinPages(Tail(ss))

RawTexts == {<<>>, <<Newline, Space>>} \cup {JoinPages(d) : d \in Documents}

----------------------------------------------------------------------------
(* _read_pdf_text: re.sub(r"\s+", " ", raw_text), then strip() *)

RECURSIVE CollapseWhitespace(_)
CollapseWhitespace(raw) ==
    IF raw = <<>> THEN <<>>
    ELSE IF IsWhitespace(Head(raw))
         THEN IF Tail(raw) # <<>> /\ IsWhitespace(Head(Tail(raw)))
              THEN CollapseWhitespace(Tail(raw))
              ELSE <<Space>> \o CollapseWhitespace(Tail(raw))
         ELSE <<Head(raw)>> \o CollapseWhitespace(Tail(raw))

RECURSIVE StripPiecesLeft(_)
StripPiecesLeft(t) ==
    IF t # <<>> /\ IsWhitespace(Head(t)) THEN StripPiecesLeft(Tail(t)) ELSE t

RECURSIVE StripPiecesRight(_)
StripPiecesRight(t) ==
    IF t # <<>> /\ IsWhitespace(t[Len(t)])
    THEN StripPiecesRight(SubSeq(t, 1, Len(t) - 1))
    ELSE t

ReadPdfText(raw) == StripPiecesRight(StripPiecesLeft(CollapseWhitespace(raw)))

----------------------------------------------------------------------------
(* _select_candidate_sentences *)

MinWords == 8
MaxWords == 35

IsSentence(p) == ~IsWhitespace(p)

\* nltk.sent_tokenize(text)
SentTokenize(text) == SelectSeq(text, IsSentence)

\* len(re.findall(r"\w+", sentence)): the tokens of the vocabulary are one word each
WordCount(s) == Len(s.toks)

IsCandidate(s) == MinWords <= WordCount(s) /\ WordCount(s) <= MaxWords /\ ~s.colon

SelectCandidateSentences(text) == SelectSeq(SentTokenize(text), IsCandidate)

----------------------------------------------------------------------------
(* _collect_nouns *)

RECURSIVE Concat(_)
Concat(ss) == IF ss = <<>> THEN <<>> ELSE Head(ss) \o Concat(Tail(ss))

\* nltk.pos_tag(nltk.word_tokenize(text)) on the whole text: the tagger sees
\* other contexts than in the per-sentence calls, so its tags are an input:
\* either those of the per-sentence calls, or no noun tag at all.
NoNounTag(tok) == Tok(tok.w, "JJ")

DocTagged(text, doc_nouns) ==
    LET toks == Concat([i \in 1..Len(SentTokenize(text)) |-> SentTokenize(text)[i].toks])
    IN IF doc_nouns THEN toks ELSE [i \in 1..Len(toks) |-> NoNounTag(toks[i])]

\* re.match(r"^[A-Za-z][A-Za-z\-]+$", w)
MatchesNounPattern(w) ==
    /\ Len(w) >= 2
    /\ w[1] \in Letters
    /\ \A i \in 2..Len(w) : w[i] \in Letters \cup {"-"}

MinNounLen == 2

RECURSIVE UniqueNouns(_, _, _)
UniqueNouns(ns, seen, acc) ==
    IF ns = <<>> THEN acc
    ELSE LET base == Strip(Strip(Head(ns), Whitespace), Punctuation)
             key == Lower(base)
         IN IF base = <<>> THEN UniqueNouns(Tail(ns), seen, acc)
            ELSE IF key \notin seen /\ Len(base) > MinNounLen
                 THEN UniqueNouns(Tail(ns), seen \cup {key}, Append(acc, base))
                 ELSE UniqueNouns(Tail(ns), seen, acc)

IsDocNoun(tok) == IsNounTag(tok.t) /\ MatchesNounPattern(tok.w)

Words(toks) == [i \in 1..Len(toks) |-> toks[i].w]

CollectNouns(text, doc_nouns) ==
    UniqueNouns(Words(SelectSeq(DocTagged(text, doc_nouns), IsDocNoun)), {}, <<>>)

----------------------------------------------------------------------------
(* the fallback of generate_quiz_from_pdf:                                  *)
(*   re.findall(r"[A-Za-z][A-Za-z\-]{3,}", text), list(dict.fromkeys(words)) *)

MinFallbackLen == 4

\* the end of the longest run of letters and hyphens that starts at w[i]
RECURSIVE RunEnd(_, _)
RunEnd(w, i) ==
    IF i < Len(w) /\ w[i + 1] \in Letters \cup {"-"} THEN RunEnd(w, i + 1) ELSE i

RECURSIVE FindAllFrom(_, _)
FindAllFrom(w, i) ==
    IF i > Len(w) THEN <<>>
    ELSE IF w[i] \in Letters
         THEN LET j == RunEnd(w, i)
              IN IF j - i + 1 >= MinFallbackLen
                 THEN <<SubSeq(w, i, j)>> \o FindAllFrom(w, j + 1)
                 ELSE FindAllFrom(w, j + 1)
         ELSE FindAllFrom(w, i + 1)

RECURSIVE FindAllWords(_)
FindAllWords(toks) ==
    IF toks = <<>> THEN <<>>
    ELSE FindAllFrom(Head(toks).w, 1) \o FindAllWords(Tail(toks))

RECURSIVE FromKeys(_, _)
FromKeys(ws, acc) ==
    IF ws = <<>> THEN acc
    ELSE IF InList(Head(ws), acc) THEN FromKeys(Tail(ws), acc)
         ELSE FromKeys(Tail(ws), Append(acc, Head(ws)))

FallbackNouns(text) == FromKeys(FindAllWords(DocTagged(text, TRUE)), <<>>)

NounPool(text, doc_nouns) ==
    IF CollectNouns(text, doc_nouns) # <<>>
    THEN CollectNouns(text, doc_nouns)
    ELSE FallbackNouns(text)

----------------------------------------------------------------------------
(* the nouns of one sentence that the loop may blank *)

InPool(n, nouns) == \E i \in 1..Len(nouns) : Lower(n) = Lower(nouns[i])

IsSentenceNoun(tok) == IsNounTag(tok.t)

SentenceNouns(sentence, nouns) ==
    LET tagged == Words(SelectSeq(sentence.toks, IsSentenceNoun))
        keep(n) == InPool(n, nouns)
    IN SelectSeq(tagged, keep)

----------------------------------------------------------------------------
(* _mask_target_in_sentence: the text of a sentence is the sequence of its  *)
(* words; \btarget\b with re.IGNORECASE matches a word that equals the      *)
(* target up to case; count=1 replaces the first match only.                *)

SentenceText(sentence) == Words(sentence.toks)

\* the match without re.IGNORECASE
MatchesTargetExactly(word, target) == word = target

MatchesTarget(word, target) == Lower(word) = Lower(target)

RECURSIVE MaskFirst(_, _)
MaskFirst(ws, target) ==
    IF ws = <<>> THEN <<>>
    ELSE IF MatchesTarget(Head(ws), target) THEN <<BLANK>> \o Tail(ws)
         ELSE <<Head(ws)>> \o MaskFirst(Tail(ws), target)

MaskTargetInSentence(sentence, target) == MaskFirst(SentenceText(sentence), target)

----------------------------------------------------------------------------
(* random.Random: sample and shuffle as the standard library computes them  *)
(* from the values _randbelow returns                                       *)

Min(a, b) == IF a < b THEN a ELSE b
Max(a, b) == IF a > b THEN a ELSE b

\* the sequences of values that _randbelow(ranges[1]), _randbelow(ranges[2]), ... can return
RECURSIVE RandbelowSeqs(_)
RandbelowSeqs(ranges) ==
    IF ranges = <<>> THEN {<<>>}
    ELSE {<<j>> \o rest : j \in 0..(Head(ranges) - 1), rest \in RandbelowSeqs(Tail(ranges))}

\* rng.sample(population, k): for i in range(k): j = _randbelow(n - i);
\*   result[i] = pool[j]; pool[j] = pool[n - i - 1]
SampleRanges(n, k) == [m \in 1..k |-> n - (m - 1)]

RECURSIVE SampleFrom(_, _, _)
SampleFrom(pool, k, js) ==
    IF k = 0 THEN <<>>
    ELSE LET n == Len(pool)
             j == Head(js) + 1
             rest == SubSeq([pool EXCEPT ![j] = pool[n]], 1, n - 1)
         IN <<pool[j]>> \o SampleFrom(rest, k - 1, Tail(js))

\* rng.shuffle(x): for i in reversed(range(1, len(x))): j = _randbelow(i + 1);
\*   x[i], x[j] = x[j], x[i]
ShuffleRanges(n) == [m \in 1..(n - 1) |-> n - (m - 1)]

RECURSIVE ShuffleFrom(_, _, _)
ShuffleFrom(x, i, js) ==
    IF i < 1 THEN x
    ELSE LET j == Head(js)
             swapped == [x EXCEPT ![i + 1] = x[j + 1], ![j + 1] = x[i + 1]]
         IN ShuffleFrom(swapped, i - 1, Tail(js))

Shuffle(x, js) == ShuffleFrom(x, Len(x) - 1, js)

----------------------------------------------------------------------------
(* _build_mcq *)

MaxDistractors == 3

\* the filter that compares the nouns as written
IsDistractorExact(n, target) ==
    /\ n # target
    /\ n # target \o <<"s">>

IsDistractor(n, target) ==
    /\ Lower(n) # Lower(target)
    /\ Lower(n) # Lower(target) \o <<"s">>

DistractorsPool(noun_pool, target) ==
    LET keep(n) == IsDistractor(n, target)
    IN SelectSeq(noun_pool, keep)

DistractorCount(noun_pool, target) ==
    Min(MaxDistractors, Len(DistractorsPool(noun_pool, target)))

----------------------------------------------------------------------------
(* the post-processing of the options in generate_quiz_from_pdf *)

RECURSIVE NormalizeFrom(_, _, _)
NormalizeFrom(options, seen, normalized) ==
    IF options = <<>> THEN normalized
    ELSE LET opt == Head(options)
             key == Lower(Strip(opt, Whitespace))
         IN IF key # <<>> /\ key \notin seen
            THEN NormalizeFrom(Tail(options), seen \cup {key}, Append(normalized, opt))
            ELSE NormalizeFrom(Tail(options), seen, normalized)

\* the options deduplicated by identity, not by lower-cased key
NormalizeByIdentity(options) == FromKeys(options, <<>>)

Normalize(options) == NormalizeFrom(options, {}, <<>>)

MinOptions == 2
MaxOptions == 4

EnsureCorrect(normalized, correct) ==
    IF InList(correct, normalized) THEN normalized ELSE Append(normalized, correct)

Truncate(options) == SubSeq(options, 1, Min(MaxOptions, Len(options)))

OptionsFinal(normalized, correct) ==
    LET options_final == Truncate(EnsureCorrect(normalized, correct))
    IN IF InList(correct, options_final) THEN options_final
       ELSE IF options_final # <<>>
            THEN [options_final EXCEPT ![Len(options_final)] = correct]
            ELSE <<correct>>

----------------------------------------------------------------------------
(* _format_quiz: the body is the sequence of its lines, a line the sequence *)
(* of the pieces the f-string joins                                         *)

OptionLabels == <<"A", "B", "C", "D", "E", "F">>

\* the label of the option at 0-based position opt_idx
OptionLabel(opt_idx) ==
    IF opt_idx < Len(OptionLabels) THEN OptionLabels[opt_idx + 1] ELSE opt_idx + 1

\* a key that names the first option whatever the position of the answer
CorrectIndexZero(options, correct) == 0

\* options.index(correct), 0 when it raises ValueError
CorrectIndex(options, correct) ==
    IF InList(correct, options)
    THEN (CHOOSE i \in 1..Len(options) :
              options[i] = correct /\ \A k \in 1..(i - 1) : options[k] # correct) - 1
    ELSE 0

QuestionBlock(n, item) ==
    <<<<"Q", n, ". ", item.question>>>>
    \o [k \in 1..Len(item.options) |-> <<"   ", OptionLabel(k - 1), ") ", item.options[k]>>]
    \o <<<<"">>>>

KeyLine(n, item) == <<"Q", n, ": ", OptionLabels[CorrectIndex(item.options, item.correct) + 1]>>

FormatQuiz(qa_items) ==
    <<<<"Quiz">>, <<"">>>>
    \o Concat([n \in 1..Len(qa_items) |-> QuestionBlock(n, qa_items[n])])
    \o <<<<"Answer Key">>>>
    \o [n \in 1..Len(qa_items) |-> KeyLine(n, qa_items[n])]

----------------------------------------------------------------------------
(* generate_quiz_from_pdf: the state of one call.  pc is the next random    *)
(* draw of the call, or its start or end.                                   *)

ErrNoText == "No text could be extracted from the PDF."
ErrNoSentences == "Could not find suitable sentences in the PDF to generate questions."
ErrNoQuestions == "Failed to generate quiz questions from the provided PDF."

NoResult == [kind |-> "none", exc |-> "", msg |-> "", body |-> <<>>]
Raise(exc, msg) == [kind |-> "raised", exc |-> exc, msg |-> msg, body |-> <<>>]
Return(body) == [kind |-> "returned", exc |-> "", msg |-> "", body |-> body]

\* the raise statements of generate_quiz_from_pdf
RaiseNoText == Raise("ValueError", ErrNoText)
RaiseNoSentences == Raise("ValueError", ErrNoSentences)
RaiseNoQuestions == Raise("ValueError", ErrNoQuestions)

NoLocals ==
    [idx |-> -1, sentence_nouns |-> <<>>, target |-> <<>>, distractors |-> <<>>,
     question_text |-> <<>>, options_final |-> <<>>]

NewCall ==
    [pc |-> "start", text |-> <<>>, candidate_sentences |-> <<>>, nouns |-> <<>>,
     chosen |-> <<>>, chosen_idx |-> <<>>, seen_sentence_indexes |-> {},
     attempts |-> 0, max_attempts |-> 0, locals |-> NoLocals, result |-> NoResult]

AttemptFactor == 6
MinAttempts == 30

MaxAttempts(num) == Max(num * AttemptFactor, MinAttempts)

\* the start with one message for both failures
StartStepOneMessage(r, raw, doc_nouns, num) ==
    LET text == ReadPdfText(raw)
        candidate_sentences == SelectCandidateSentences(text)
    IN IF text = <<>> \/ candidate_sentences = <<>>
       THEN [r EXCEPT !.pc = "done", !.text = text, !.result = RaiseNoText]
       ELSE [r EXCEPT !.pc = "loop", !.text = text,
                      !.candidate_sentences = candidate_sentences,
                      !.nouns = NounPool(text, doc_nouns),
                      !.max_attempts = MaxAttempts(num)]

\* the start with a check of the noun pool that raises as for no sentences
StartStepCheckingNouns(r, raw, doc_nouns, num) ==
    LET text == ReadPdfText(raw)
        candidate_sentences == SelectCandidateSentences(text)
    IN IF text = <<>>
       THEN [r EXCEPT !.pc = "done", !.result = RaiseNoText]
       ELSE IF candidate_sentences = <<>> \/ NounPool(text, doc_nouns) = <<>>
            THEN [r EXCEPT !.pc = "done", !.text = text,
                           !.candidate_sentences = candidate_sentences,
                           !.result = RaiseNoSentences]
            ELSE [r EXCEPT !.pc = "loop", !.text = text,
                           !.candidate_sentences = candidate_sentences,
                           !.nouns = NounPool(text, doc_nouns),
                           !.max_attempts = MaxAttempts(num)]

\* lines 172-191: the text, the candidate sentences, the noun pool
StartStep(r, raw, doc_nouns, num) ==
    LET text == ReadPdfText(raw)
        candidate_sentences == SelectCandidateSentences(text)
    IN IF text = <<>>
       THEN [r EXCEPT !.pc = "done", !.result = RaiseNoText]
       ELSE IF candidate_sentences = <<>>
            THEN [r EXCEPT !.pc = "done", !.text = text, !.result = RaiseNoSentences]
            ELSE [r EXCEPT !.pc = "loop", !.text = text,
                           !.candidate_sentences = candidate_sentences,
                           !.nouns = NounPool(text, doc_nouns),
                           !.max_attempts = MaxAttempts(num)]

\* the loop condition with the budget compared by <=
LoopConditionBudgetInclusive(r, num) == Len(r.chosen) < num /\ r.attempts <= r.max_attempts

\* the loop condition with the count compared by <=
LoopConditionCountInclusive(r, num) == Len(r.chosen) <= num /\ r.attempts < r.max_attempts

\* line 192: the condition of the while loop
LoopCondition(r, num) == Len(r.chosen) < num /\ r.attempts < r.max_attempts

\* the attempt without the test of seen_sentence_indexes
AttemptStepReusing(r, idx) ==
    LET counted == [r EXCEPT !.attempts = @ + 1]
        sentence == r.candidate_sentences[idx + 1]
        sentence_nouns == SentenceNouns(sentence, r.nouns)
    IN IF sentence_nouns = <<>>
       THEN [counted EXCEPT !.seen_sentence_indexes = @ \cup {idx}]
       ELSE [counted EXCEPT !.seen_sentence_indexes = @ \cup {idx},
                            !.pc = "choice",
                            !.locals = [NoLocals EXCEPT !.idx = idx,
                                                        !.sentence_nouns = sentence_nouns]]

\* the attempt without seen_sentence_indexes.add(idx)
AttemptStepNotMarking(r, idx) ==
    LET counted == [r EXCEPT !.attempts = @ + 1]
        sentence == r.candidate_sentences[idx + 1]
        sentence_nouns == SentenceNouns(sentence, r.nouns)
    IN IF idx \in r.seen_sentence_indexes THEN counted
       ELSE IF sentence_nouns = <<>> THEN counted
            ELSE [counted EXCEPT !.pc = "choice",
                                 !.locals = [NoLocals EXCEPT !.idx = idx,
                                                             !.sentence_nouns = sentence_nouns]]

\* the attempt with seen_sentence_indexes = {idx} for seen_sentence_indexes.add(idx)
AttemptStepForgetting(r, idx) ==
    LET counted == [r EXCEPT !.attempts = @ + 1]
        sentence == r.candidate_sentences[idx + 1]
        sentence_nouns == SentenceNouns(sentence, r.nouns)
    IN IF idx \in r.seen_sentence_indexes THEN counted
       ELSE IF sentence_nouns = <<>>
            THEN [counted EXCEPT !.seen_sentence_indexes = {idx}]
            ELSE [counted EXCEPT !.seen_sentence_indexes = {idx},
                                 !.pc = "choice",
                                 !.locals = [NoLocals EXCEPT !.idx = idx,
                                                             !.sentence_nouns = sentence_nouns]]

\* the attempt that is counted only when the index is new
AttemptStepNotCountingSeen(r, idx) ==
    LET counted == [r EXCEPT !.attempts = @ + 1]
        sentence == r.candidate_sentences[idx + 1]
        sentence_nouns == SentenceNouns(sentence, r.nouns)
    IN IF idx \in r.seen_sentence_indexes THEN r
       ELSE IF sentence_nouns = <<>>
            THEN [counted EXCEPT !.seen_sentence_indexes = @ \cup {idx}]
            ELSE [counted EXCEPT !.seen_sentence_indexes = @ \cup {idx},
                                 !.pc = "choice",
                                 !.locals = [NoLocals EXCEPT !.idx = idx,
                                                             !.sentence_nouns = sentence_nouns]]

\* lines 193-210: one attempt, idx = rng.randrange(0, len(candidate_sentences))
AttemptStep(r, idx) ==
    LET counted == [r EXCEPT !.attempts = @ + 1]
        sentence == r.candidate_sentences[idx + 1]
        sentence_nouns == SentenceNouns(sentence, r.nouns)
    IN IF idx \in r.seen_sentence_indexes THEN counted
       ELSE IF sentence_nouns = <<>>
            THEN [counted EXCEPT !.seen_sentence_indexes = @ \cup {idx}]
            ELSE [counted EXCEPT !.seen_sentence_indexes = @ \cup {idx},
                                 !.pc = "choice",
                                 !.locals = [NoLocals EXCEPT !.idx = idx,
                                                             !.sentence_nouns = sentence_nouns]]

\* line 212: target = rng.choice(sentence_nouns)
ChoiceStep(r, j) ==
    [r EXCEPT !.pc = "sample", !.locals.target = r.locals.sentence_nouns[j + 1]]

\* lines 125-126: distractors = rng.sample(distractors_pool, k)
SampleStep(r, js) ==
    LET pool == DistractorsPool(r.nouns, r.locals.target)
    IN [r EXCEPT !.pc = "shuffle",
                 !.locals.distractors = SampleFrom(pool, DistractorCount(r.nouns, r.locals.target), js)]

\* the step without "if len(normalized) < 2: continue"
ShuffleStepKeepingDegenerate(r, js) ==
    LET target == r.locals.target
        sentence == r.candidate_sentences[r.locals.idx + 1]
        all_options == Shuffle(r.locals.distractors \o <<target>>, js)
    IN [r EXCEPT !.pc = "reshuffle",
                 !.locals.question_text = MaskTargetInSentence(sentence, target),
                 !.locals.options_final = OptionsFinal(Normalize(all_options), target)]

\* lines 127-130 and 215-235: rng.shuffle(all_options), the mask, and the
\* post-processing of the options up to the second shuffle
ShuffleStep(r, js) ==
    LET target == r.locals.target
        sentence == r.candidate_sentences[r.locals.idx + 1]
        question_text == MaskTargetInSentence(sentence, target)
        Continue(normalized) ==
            IF Len(normalized) < MinOptions
            THEN [r EXCEPT !.pc = "loop", !.locals = NoLocals]
            ELSE [r EXCEPT !.pc = "reshuffle",
                           !.locals.question_text = question_text,
                           !.locals.options_final = OptionsFinal(normalized, target)]
        \* all_options and normalized are bound to their values, each computed once
        outcomes == {Continue(normalized) :
                        normalized \in {Normalize(all_options) :
                            all_options \in {Shuffle(r.locals.distractors \o <<target>>, js)}}}
    IN CHOOSE next \in outcomes : TRUE

Item(question, options, correct) ==
    [question |-> question, options |-> options, correct |-> correct]

\* lines 236-238: rng.shuffle(options_final), chosen.append(...)
ReshuffleStep(r, js) ==
    [r EXCEPT !.pc = "loop",
              !.chosen = Append(@, Item(r.locals.question_text,
                                        Shuffle(r.locals.options_final, js),
                                        r.locals.target)),
              !.chosen_idx = Append(@, r.locals.idx),
              !.locals = NoLocals]

\* the end of the call without the test of chosen
FinishStepAlwaysReturn(r) == [r EXCEPT !.pc = "done", !.result = Return(FormatQuiz(r.chosen))]

\* lines 240-243: the end of the call
FinishStep(r) ==
    IF r.chosen = <<>>
    THEN [r EXCEPT !.pc = "done", !.result = RaiseNoQuestions]
    ELSE [r EXCEPT !.pc = "done", !.result = Return(FormatQuiz(r.chosen))]

\* the ranges of the _randbelow calls of the draw at r.pc
DrawRanges(r) ==
    CASE r.pc = "loop" -> <<Len(r.candidate_sentences)>>
      [] r.pc = "choice" -> <<Len(r.locals.sentence_nouns)>>
      [] r.pc = "sample" ->
            SampleRanges(Len(DistractorsPool(r.nouns, r.locals.target)),
                         DistractorCount(r.nouns, r.locals.target))
      [] r.pc = "shuffle" -> ShuffleRanges(Len(r.locals.distractors) + 1)
      [] r.pc = "reshuffle" -> ShuffleRanges(Len(r.locals.options_final))
      [] OTHER -> <<>>

----------------------------------------------------------------------------
(* The calls.  run is a call of generate_quiz_from_pdf; twin is a second    *)
(* call with the same arguments, which only SpecDet runs.                   *)

VARIABLES raw_text, doc_nouns, num_questions, seed, run, twin, rng, twin_rng

vars == <<raw_text, doc_nouns, num_questions, seed, run, twin, rng, twin_rng>>

inputs == <<raw_text, doc_nouns, num_questions, seed>>

Counts == 1..MaxCount

\* in Spec the generator is abstract: a draw returns any value of its range
Abstract == None

Init ==
    /\ raw_text \in RawTexts
    /\ doc_nouns \in BOOLEAN
    /\ num_questions \in Counts
    /\ seed = None
    /\ run = NewCall
    /\ twin = NewCall
    /\ rng = Abstract
    /\ twin_rng = Abstract

Start ==
    /\ run.pc = "start"
    /\ run' = StartStep(run, raw_text, doc_nouns, num_questions)
    /\ UNCHANGED <<inputs, twin, rng, twin_rng>>

Attempt ==
    /\ run.pc = "loop"
    /\ LoopCondition(run, num_questions)
    /\ \E js \in RandbelowSeqs(DrawRanges(run)) : run' = AttemptStep(run, js[1])
    /\ UNCHANGED <<inputs, twin, rng, twin_rng>>

Choice ==
    /\ run.pc = "choice"
    /\ \E js \in RandbelowSeqs(DrawRanges(run)) : run' = ChoiceStep(run, js[1])
    /\ UNCHANGED <<inputs, twin, rng, twin_rng>>

Sample ==
    /\ run.pc = "sample"
    /\ \E js \in RandbelowSeqs(DrawRanges(run)) : run' = SampleStep(run, js)
    /\ UNCHANGED <<inputs, twin, rng, twin_rng>>

ShuffleOptions ==
    /\ run.pc = "shuffle"
    /\ \E js \in RandbelowSeqs(DrawRanges(run)) : run' = ShuffleStep(run, js)
    /\ UNCHANGED <<inputs, twin, rng, twin_rng>>

Reshuffle ==
    /\ run.pc = "reshuffle"
    /\ \E js \in RandbelowSeqs(DrawRanges(run)) : run' = ReshuffleStep(run, js)
    /\ UNCHANGED <<inputs, twin, rng, twin_rng>>

Finish ==
    /\ run.pc = "loop"
    /\ ~LoopCondition(run, num_questions)
    /\ run' = FinishStep(run)
    /\ UNCHANGED <<inputs, twin, rng, twin_rng>>

Next == Start \/ Attempt \/ Choice \/ Sample \/ ShuffleOptions \/ Reshuffle \/ Finish

Spec == Init /\ [][Next]_vars

\* the statements of the loop and of the end of the call
LoopNext == Attempt \/ Choice \/ Sample \/ ShuffleOptions \/ Reshuffle \/ Finish

\* the call is one thread of control: once in the loop, a statement that
\* can run does run
SpecFair == Init /\ [][Next]_vars /\ WF_vars(LoopNext)

----------------------------------------------------------------------------
(* SpecDet: two calls with the same arguments, each with its own            *)
(* random.Random(seed) (line 172).  The generator is a function of its      *)
(* state; seed=None seeds it from the entropy of the system.                *)

Seeds == 0..MaxSeed

\* random.Random() without the seed
NewRandomUnseeded(seed_arg, entropy) == entropy

NewRandom(seed_arg, entropy) == IF seed_arg = None THEN entropy ELSE seed_arg

RngNext(s) == (5 * s + 3) % 16

Randbelow(s, n) == (RngNext(s) \div 2) % n

RECURSIVE RandbelowValues(_, _)
RandbelowValues(s, ranges) ==
    IF ranges = <<>> THEN <<>>
    ELSE <<Randbelow(s, Head(ranges))>> \o RandbelowValues(RngNext(s), Tail(ranges))

RECURSIVE RngAfter(_, _)
RngAfter(s, n) == IF n = 0 THEN s ELSE RngAfter(RngNext(s), n - 1)

\* the ranges of the draws of the next step of call r
StepRanges(r) ==
    IF r.pc = "loop" /\ ~LoopCondition(r, num_questions) THEN <<>> ELSE DrawRanges(r)

\* the next step of call r, its draws returning js
StepWith(r, js) ==
    CASE r.pc = "loop" ->
            IF LoopCondition(r, num_questions) THEN AttemptStep(r, js[1]) ELSE FinishStep(r)
      [] r.pc = "choice" -> ChoiceStep(r, js[1])
      [] r.pc = "sample" -> SampleStep(r, js)
      [] r.pc = "shuffle" -> ShuffleStep(r, js)
      [] r.pc = "reshuffle" -> ReshuffleStep(r, js)
      [] OTHER -> r

\* the next step of call r with the generator in state s
SeededStep(r, s) == StepWith(r, RandbelowValues(s, StepRanges(r)))

InitDet ==
    /\ raw_text \in RawTexts
    /\ doc_nouns \in BOOLEAN
    /\ num_questions \in Counts
    /\ seed \in Seeds \cup {None}
    /\ run = NewCall
    /\ twin = NewCall
    /\ rng = Abstract
    /\ twin_rng = Abstract

Running(r) == r.pc \notin {"start", "done"}

DetStart ==
    /\ run.pc = "start"
    /\ twin.pc = "start"
    /\ \E e1, e2 \in Seeds :
          /\ rng' = NewRandom(seed, e1)
          /\ twin_rng' = NewRandom(seed, e2)
    /\ run' = StartStep(run, raw_text, doc_nouns, num_questions)
    /\ twin' = StartStep(twin, raw_text, doc_nouns, num_questions)
    /\ UNCHANGED inputs

DetStep ==
    /\ Running(run)
    /\ run' = SeededStep(run, rng)
    /\ rng' = RngAfter(rng, Len(StepRanges(run)))
    /\ twin' = SeededStep(twin, twin_rng)
    /\ twin_rng' = RngAfter(twin_rng, Len(StepRanges(twin)))
    /\ UNCHANGED inputs

DetTwinStep ==
    /\ run.pc = "done"
    /\ Running(twin)
    /\ twin' = SeededStep(twin, twin_rng)
    /\ twin_rng' = RngAfter(twin_rng, Len(StepRanges(twin)))
    /\ UNCHANGED <<inputs, run, rng>>

NextDet == DetStart \/ DetStep \/ DetTwinStep

SpecDet == InitDet /\ [][NextDet]_vars

----------------------------------------------------------------------------
(* Properties *)

Indexes(seq) == 1..Len(seq)

\* C1: the assembly loop never performs more than max(requestedCount*6, 30)
\* sentence-selection attempts, whatever the draws.
C1_AttemptBudget == run.attempts <= Max(num_questions * 6, 30)

\* six questions requested: the budget of 36 attempts is spent to the last
\* one, seen indexes drawn again and again, and a quiz is returned all the same
C1_Witness ==
    /\ run.pc = "done"
    /\ num_questions = 6
    /\ run.attempts = 36
    /\ run.attempts > Cardinality(run.seen_sentence_indexes)
    /\ run.result.kind = "returned"

\* C2: at every point of the loop and at its end, the number of accepted
\* questions is at most the requested count.
C2_CountBound == Len(run.chosen) <= num_questions

\* the requested two questions were accepted
C2_Witness ==
    /\ run.pc = "done"
    /\ num_questions = 2
    /\ Len(run.chosen) = 2

NoCaseDuplicates(options) ==
    \A i, j \in Indexes(options) : i # j => Lower(options[i]) # Lower(options[j])

\* C3: for every accepted question the correct answer is one of its options
\* and no two of its options are equal up to case, with the noun pool of the
\* POS-tagging path as with that of the regex fallback.
C3_AnswerValidity ==
    \A k \in Indexes(run.chosen) :
        /\ InList(run.chosen[k].correct, run.chosen[k].options)
        /\ NoCaseDuplicates(run.chosen[k].options)

\* the fallback pool holds Bird and bird; both were distractors of frog and
\* one of them was dropped
C3_Witness ==
    /\ CollectNouns(run.text, doc_nouns) = <<>>
    /\ ~NoCaseDuplicates(run.nouns)
    /\ \E k \in Indexes(run.chosen) :
          /\ run.chosen[k].correct = frog
          /\ Len(run.chosen[k].options) = 2

\* the positions of the words of a text that equal the answer up to case
Occurrences(words, answer) == {i \in Indexes(words) : Lower(words[i]) = Lower(answer)}

\* the sentence an accepted question was built from
SentenceOf(k) == SentenceText(run.candidate_sentences[run.chosen_idx[k] + 1])

\* C4 as claimed: no word of the text of an accepted question equals the
\* correct answer up to case, also when the answer occurs more than once in
\* the sentence.
C4_Original ==
    \A k \in Indexes(run.chosen) :
        Occurrences(run.chosen[k].question, run.chosen[k].correct) = {}

Least(S) == CHOOSE i \in S : \A j \in S : i <= j

\* C4 amended: the first occurrence of the correct answer in the sentence,
\* and only that one, is replaced by the blank marker; the text of the
\* question holds no occurrence when the answer occurs once in the sentence,
\* and keeps the later ones when it occurs more than once.
C4_MaskFirstOnly ==
    \A k \in Indexes(run.chosen) :
        LET q == run.chosen[k]
            occ == Occurrences(SentenceOf(k), q.correct)
        IN /\ occ # {}
           /\ q.question[Least(occ)] = BLANK
           /\ Occurrences(q.question, q.correct) = occ \ {Least(occ)}
           /\ \A i \in Indexes(SentenceOf(k)) \ {Least(occ)} : q.question[i] = SentenceOf(k)[i]

\* an accepted question whose answer is still in its text
C4_Witness ==
    \E k \in Indexes(run.chosen) :
        /\ Cardinality(Occurrences(SentenceOf(k), run.chosen[k].correct)) = 2
        /\ Cardinality(Occurrences(run.chosen[k].question, run.chosen[k].correct)) = 1

HasDistractor(nouns, target) == DistractorsPool(nouns, target) # <<>>

\* some, or every, eligible target of the sentence gives a question of two options or more
CanYield(sentence, nouns) ==
    \E j \in Indexes(SentenceNouns(sentence, nouns)) :
        HasDistractor(nouns, SentenceNouns(sentence, nouns)[j])

AlwaysYields(sentence, nouns) ==
    /\ SentenceNouns(sentence, nouns) # <<>>
    /\ \A j \in Indexes(SentenceNouns(sentence, nouns)) :
          HasDistractor(nouns, SentenceNouns(sentence, nouns)[j])

SentenceIndexes == 0..(Len(run.candidate_sentences) - 1)

ValidIndexes == {i \in SentenceIndexes : CanYield(run.candidate_sentences[i + 1], run.nouns)}

\* the call is over and fewer sentences than requested, but one at least, can yield a question
FewerValidThanRequested ==
    /\ run.pc = "done"
    /\ Cardinality(ValidIndexes) >= 1
    /\ num_questions > Cardinality(ValidIndexes)

LoopOver == run.pc = "done" /\ run.candidate_sentences # <<>>

\* C7: the loop ends in success, a formatted quiz being returned, exactly
\* when one question or more was accepted, and in the failure of quiz
\* generation exactly when none was; fewer questions than requested is no error.
C7_Outcome ==
    LoopOver =>
        /\ run.result.kind = "returned" <=> Len(run.chosen) >= 1
        /\ run.result = RaiseNoQuestions <=> Len(run.chosen) = 0
        /\ run.result.kind = "returned" => run.result.body = FormatQuiz(run.chosen)

\* a quiz of fewer questions than requested is returned
C7_Witness ==
    /\ LoopOver
    /\ run.result.kind = "returned"
    /\ Len(run.chosen) < num_questions

RaiseStatements == {RaiseNoText, RaiseNoSentences, RaiseNoQuestions}

\* C8 as claimed: the three fatal conditions are three distinct kinds of
\* error: the kind of the error raised is the kind of no other of the three.
C8_Original ==
    run.result.kind = "raised" =>
        \A other \in RaiseStatements \ {run.result} : other.exc # run.result.exc

AllWhitespace(raw) == \A i \in Indexes(raw) : IsWhitespace(raw[i])

HasCandidate(raw) == \E i \in Indexes(raw) : IsSentence(raw[i]) /\ IsCandidate(raw[i])

\* C8 amended: the three fatal conditions are raised as one kind of error,
\* ValueError, and are told apart by their messages only: one message for a
\* text that is empty or all whitespace, one for a text with no candidate
\* sentence, one for a loop that accepted no question.
C8_OneKindThreeMessages ==
    run.result.kind = "raised" =>
        /\ run.result.exc = "ValueError"
        /\ run.result.msg \in {ErrNoText, ErrNoSentences, ErrNoQuestions}
        /\ run.result.msg = ErrNoText <=> AllWhitespace(raw_text)
        /\ run.result.msg = ErrNoSentences <=> (~AllWhitespace(raw_text) /\ ~HasCandidate(raw_text))
        /\ run.result.msg = ErrNoQuestions <=> (HasCandidate(raw_text) /\ run.chosen = <<>>)
        /\ Cardinality({ErrNoText, ErrNoSentences, ErrNoQuestions}) = 3

\* a text with sentences, none of them a candidate, has raised
C8_Witness ==
    /\ run.result.kind = "raised"
    /\ ~AllWhitespace(raw_text)
    /\ ~HasCandidate(raw_text)

\* there are candidate sentences and both noun pools are empty
EmptyPools ==
    /\ run.pc = "done"
    /\ run.candidate_sentences # <<>>
    /\ CollectNouns(run.text, doc_nouns) = <<>>
    /\ FallbackNouns(run.text) = <<>>

\* C9 as claimed: when the POS-tagging path and the fallback both give an
\* empty noun pool, the call fails as it does for no candidate sentences.
C9_Original == EmptyPools => run.result = RaiseNoSentences

\* C9 amended: when the POS-tagging path and the fallback both give an empty
\* noun pool, the call spends its whole attempt budget and fails as a loop
\* that accepted no question does, not as it does for no candidate sentences.
C9_FailsAsEmptyLoop ==
    EmptyPools =>
        /\ run.result = RaiseNoQuestions
        /\ run.result # RaiseNoSentences
        /\ run.attempts = MaxAttempts(num_questions)

C9_Witness == EmptyPools /\ run.result.kind = "raised"

\* C10 as claimed: an attempt consumes budget only for an unseen index and
\* the loop stops when none remains, so that the attempts of a call never
\* exceed the number of candidate sentences.
C10_Original == run.attempts <= Len(run.candidate_sentences)

\* C10 amended: an attempt that draws a seen index consumes budget too, and
\* the loop goes on when no unseen index remains; only the attempts that go
\* on to process a sentence pick an unseen index, so that the number of
\* sentences processed, not of attempts, never exceeds the number of
\* candidate sentences, and the attempts are bounded by the budget alone.
C10_ProcessedBound ==
    /\ run.seen_sentence_indexes \subseteq SentenceIndexes
    /\ Cardinality(run.seen_sentence_indexes) <= Len(run.candidate_sentences)
    /\ Cardinality(run.seen_sentence_indexes) <= run.attempts
    /\ run.attempts <= run.max_attempts
    /\ run.pc \in {"choice", "sample", "shuffle", "reshuffle"} =>
          run.locals.idx \in run.seen_sentence_indexes
    /\ Range(run.chosen_idx) \subseteq run.seen_sentence_indexes

\* every index is seen, the attempts exceed the sentences, and the loop goes on
C10_Witness ==
    /\ run.pc = "loop"
    /\ LoopCondition(run, num_questions)
    /\ run.candidate_sentences # <<>>
    /\ run.seen_sentence_indexes = SentenceIndexes
    /\ run.attempts > Len(run.candidate_sentences)

\* the indexes of the accepted questions are pairwise distinct
DistinctIndexes(idxs) == \A i, j \in Indexes(idxs) : i # j => idxs[i] # idxs[j]

\* C11: no candidate sentence is processed twice in one call: the set of seen
\* indexes only grows, a step that takes up a sentence takes one that was not
\* seen and marks it, and no two accepted questions come from one index.
C11_NoReuse ==
    [][/\ run.seen_sentence_indexes \subseteq run'.seen_sentence_indexes
       /\ Cardinality(run'.seen_sentence_indexes) <= Cardinality(run.seen_sentence_indexes) + 1
       /\ (run.pc = "loop" /\ run'.pc = "choice") =>
             /\ run'.locals.idx \notin run.seen_sentence_indexes
             /\ run'.locals.idx \in run'.seen_sentence_indexes
       /\ DistinctIndexes(run'.chosen_idx)
       /\ Range(run'.chosen_idx) \subseteq run'.seen_sentence_indexes]_vars

\* two questions from two sentences, after draws of indexes already seen
C11_Witness ==
    /\ Len(run.chosen) = 2
    /\ run.chosen_idx[1] # run.chosen_idx[2]
    /\ run.attempts > Cardinality(run.seen_sentence_indexes)
    /\ run.seen_sentence_indexes = {0, 1}

OptionCountOk(options) == 2 <= Len(options) /\ Len(options) <= 4

IsHeaderLine(line) == Len(line) = 4 /\ line[1] = "Q" /\ line[3] = ". "
IsOptionLine(line) == Len(line) = 4 /\ line[1] = "   " /\ line[3] = ") "
IsKeyLine(line) == Len(line) = 4 /\ line[1] = "Q" /\ line[3] = ": "
IsKeyHeader(line) == Len(line) = 1 /\ line[1] = "Answer Key"

\* the positions of the lines of a body that satisfy Test(_)
LinesWhere(body, Test(_)) == {p \in 1..Len(body) : Test(body[p])}

\* question n of qa_items is printed at position h and its key line at p + n
\* names the label printed next to the correct answer
KeyMatchesBlock(body, qa_items, n, h, p) ==
    LET options == qa_items[n].options
    IN /\ h + Len(options) < p
       /\ IsHeaderLine(body[h]) /\ body[h][2] = n
       /\ \A k \in 1..Len(options) :
             /\ IsOptionLine(body[h + k])
             /\ body[h + k][4] = options[k]
             /\ options[k] = qa_items[n].correct => body[p + n][4] = body[h + k][2]
       /\ \E k \in 1..Len(options) : options[k] = qa_items[n].correct
       /\ ~IsOptionLine(body[h + Len(options) + 1])

\* C13: in a returned body the key line "Q{n}: {letter}" names the label
\* printed next to the correct answer in the option lines of question n, and
\* the key lines after "Answer Key" are one per question, numbered 1.. in
\* the order of the question blocks.
C13_KeyMatchesOptions ==
    run.result.kind = "returned" =>
        LET body == run.result.body
            count == Len(run.chosen)
        IN \E p \in 1..Len(body) :
              /\ LinesWhere(body, IsKeyHeader) = {p}
              /\ Len(body) = p + count
              /\ LinesWhere(body, IsKeyLine) = (p + 1)..(p + count)
              /\ Cardinality(LinesWhere(body, IsHeaderLine)) = count
              /\ \A n \in 1..count : body[p + n][2] = n
              /\ \A n \in 1..count :
                    \E h \in 1..p : KeyMatchesBlock(body, run.chosen, n, h, p)
              /\ \A m, n \in 1..count :
                    m < n => \E g, h \in 1..p :
                                /\ g < h
                                /\ KeyMatchesBlock(body, run.chosen, m, g, p)
                                /\ KeyMatchesBlock(body, run.chosen, n, h, p)

\* a body of two questions whose keys name different labels, one of them
\* the third option
C13_Witness ==
    /\ run.result.kind = "returned"
    /\ Len(run.chosen) = 2
    /\ \E p \in 1..Len(run.result.body) :
          /\ IsKeyHeader(run.result.body[p])
          /\ Len(run.result.body) = p + 2
          /\ {run.result.body[p + 1][4], run.result.body[p + 2][4]} = {"A", "C"}

\* C14: the loop ends for every input and every sequence of draws: each
\* iteration, one that hits a seen index, finds no eligible noun or drops a
\* degenerate question included, adds one to attempts, attempts never goes
\* down, and the call reaches its return or its raise.
C14_Terminates ==
    /\ [][/\ (run.pc = "loop" /\ run'.pc # "done") => run'.attempts = run.attempts + 1
          /\ run'.attempts >= run.attempts
          /\ run'.pc = "loop" => run'.attempts <= run'.max_attempts]_vars
    /\ (run.pc = "loop") ~> (run.pc = "done")

\* the call ended by the budget alone: draws of seen indexes used it up
\* while a question was still wanted
C14_Witness ==
    /\ run.pc = "done"
    /\ run.result.kind = "returned"
    /\ run.attempts = run.max_attempts
    /\ Len(run.chosen) < num_questions
    /\ Cardinality(run.seen_sentence_indexes) = Len(run.candidate_sentences)

\* the two lists hold the same entries, each as many times
IsPermutation(a, b) ==
    /\ Len(a) = Len(b)
    /\ \A x \in Range(a) \cup Range(b) :
          Cardinality({i \in Indexes(a) : a[i] = x}) = Cardinality({i \in Indexes(b) : b[i] = x})

\* lines 226-227 and 230-235: the branches that put the correct answer back
AppendTaken(normalized, correct) == ~InList(correct, normalized)
ForceLastTaken(normalized, correct) ==
    ~InList(correct, Truncate(EnsureCorrect(normalized, correct)))

\* C15: the builder leaves out every noun equal to the target up to case, so
\* the dedup pass never drops the target: neither the branch that appends
\* the correct answer nor the one that forces it into the last slot is
\* taken, the list kept is the deduplicated list unchanged, and the options
\* of the accepted question are a permutation of it.
C15_BranchesDead ==
    [][/\ run.pc = "shuffle" =>
             \A js \in RandbelowSeqs(DrawRanges(run)) :
                 run' = ShuffleStep(run, js) =>
                     LET target == run.locals.target
                         normalized == Normalize(Shuffle(run.locals.distractors \o <<target>>, js))
                     IN /\ ~AppendTaken(normalized, target)
                        /\ ~ForceLastTaken(normalized, target)
                        /\ run'.pc = "reshuffle" => run'.locals.options_final = normalized
       /\ (run.pc = "reshuffle" /\ run'.pc = "loop") =>
             /\ Len(run'.chosen) = Len(run.chosen) + 1
             /\ IsPermutation(run'.chosen[Len(run'.chosen)].options, run.locals.options_final)]_vars

\* the dedup pass dropped a distractor, equal up to case to another one, and
\* kept the target
C15_Witness ==
    /\ run.pc = "reshuffle"
    /\ Len(run.locals.options_final) < Len(run.locals.distractors) + 1
    /\ InList(run.locals.target, run.locals.options_final)

====
